---- MODULE Spec2Model ----
(***************************************************************************)
(* Model of rip-audio-cd.py: one invocation of main() per process, the     *)
(* drive probe, the Telegram notifier, the abcde log parser, and the file  *)
(* system under the temp-rip root and the final music directory.           *)
(***************************************************************************)
EXTENDS Integers, Sequences, FiniteSets, TLC

\* ------------------------------------------------------------------ bounds
\* int(time.time()) is read as one of the seconds 1..MaxTime.
MaxTime == 2
\* The ripper's exit status is one of 0..MaxRipCode.
MaxRipCode == 2
\* The ripper's stdout has at most MaxLogLines lines.
MaxLogLines == 2
\* Raw ioctl results are drawn from -1..MaxStatus.
MaxStatus == 5

\* ------------------------------------------------- constants of the script
CDS_NO_DISC == 1
CDS_TRAY_OPEN == 2
CDS_DRIVE_NOT_READY == 3
CDS_DISC_OK == 4

\* Process ids of the invocations (os.getpid()).
Procs == {1, 2}
\* sys.argv[1] values.
Devices == {"sr0", "sr1"}
NoDevice == "none"
\* Names of the album directories the ripper writes under <temp>/flac/.
Albums == {"X", "Y"}
Times == 1..MaxTime
RipCodes == 0..MaxRipCode
\* Outcome of launching an external command with subprocess.
CmdResults == {"ok", "nonzero", "notfound"}

\* A directory name directly under FINAL_MUSIC_DIR: <<a, 0>> is "a" and
\* <<a, t>> is "a-t", the name line 160 builds.
FinalNames == Albums \X (0..MaxTime)
NoPath == <<"", 0>>
\* A session directory name under TEMP_RIP_DIR_BASE (line 130).
NoSession == <<NoDevice, 0, 0>>
TempNameNoPid(device_name, pid, t) == <<device_name, 0, t>>
TempName(device_name, pid, t) == <<device_name, pid, t>>
DevicePath(device_name) == <<"/dev", device_name>>

\* Content of a directory under FINAL_MUSIC_DIR: who created it (0: it was
\* there before the run, p: moved there by process p) and the album
\* directories nested inside it, each with its creator.
NoDir == [present |-> FALSE, origin |-> 0, inner |-> {}]
Dir(o, in) == [present |-> TRUE, origin |-> o, inner |-> in]

\* ---------------------------------------------------------------- Prober
\* The probe input: the ioctl result, or a failure of os.open / fcntl.ioctl.
ProbeInputs == [ok : {TRUE}, status : -1..MaxStatus] \cup {[ok |-> FALSE, status |-> 0]}

GetDriveStatusFailClosed(raw) ==
    IF ~raw.ok THEN [ready |-> FALSE, msg |-> "Check Failed", detail |-> <<>>]
    ELSE IF raw.status = CDS_DISC_OK THEN [ready |-> TRUE, msg |-> "Disc Present", detail |-> <<>>]
    ELSE [ready |-> FALSE, msg |-> "No Disc", detail |-> <<>>]

GetDriveStatusZeroNoDisc(raw) ==
    IF ~raw.ok THEN [ready |-> TRUE, msg |-> "Check Failed", detail |-> <<>>]
    ELSE IF raw.status = CDS_DISC_OK THEN [ready |-> TRUE, msg |-> "Disc Present", detail |-> <<>>]
    ELSE IF raw.status = CDS_TRAY_OPEN THEN [ready |-> FALSE, msg |-> "Tray Open", detail |-> <<>>]
    ELSE IF raw.status <= CDS_NO_DISC THEN [ready |-> FALSE, msg |-> "No Disc", detail |-> <<>>]
    ELSE IF raw.status = CDS_DRIVE_NOT_READY THEN [ready |-> FALSE, msg |-> "Drive Not Ready", detail |-> <<>>]
    ELSE [ready |-> FALSE, msg |-> "Unknown Status", detail |-> <<raw.status>>]

GetDriveStatus(raw) ==
    IF ~raw.ok THEN [ready |-> TRUE, msg |-> "Check Failed", detail |-> <<>>]
    ELSE IF raw.status = CDS_DISC_OK THEN [ready |-> TRUE, msg |-> "Disc Present", detail |-> <<>>]
    ELSE IF raw.status = CDS_TRAY_OPEN THEN [ready |-> FALSE, msg |-> "Tray Open", detail |-> <<>>]
    ELSE IF raw.status = CDS_NO_DISC THEN [ready |-> FALSE, msg |-> "No Disc", detail |-> <<>>]
    ELSE IF raw.status = CDS_DRIVE_NOT_READY THEN [ready |-> FALSE, msg |-> "Drive Not Ready", detail |-> <<>>]
    ELSE [ready |-> FALSE, msg |-> "Unknown Status", detail |-> <<raw.status>>]

NoProbe == [ready |-> FALSE, msg |-> "", detail |-> <<>>]

\* --------------------------------------------------------------- Notifier
NoImage == ""
CoverUrls == {"https://example.com/cover.jpg"}

\* The message texts main() builds (lines 136, 179, 184-188, 198).
Msg(tag, dev, code, artist, album, path) ==
    [tag |-> tag, device |-> dev, code |-> code, artist |-> artist,
     album |-> album, path |-> path]

Request(kind, message, image_url) == [kind |-> kind, text |-> message, photo |-> image_url]

\* send_telegram(message, image_url) with the configuration `cfg` (token and
\* chat id both set) and the transport outcome `net` of requests.post.
\* reqs: the HTTP requests issued; failed: the transport raised; raised: an
\* exception left send_telegram.
SendTelegramRetry(cfg, message, image_url, net) ==
    IF ~cfg THEN [reqs |-> <<>>, failed |-> FALSE, raised |-> FALSE]
    ELSE LET first == IF image_url # NoImage
                      THEN Request("sendPhoto", message, image_url)
                      ELSE Request("sendMessage", message, NoImage)
         IN  IF net = "fail" /\ image_url # NoImage
             THEN [reqs |-> <<first, Request("sendMessage", message, NoImage)>>,
                   failed |-> TRUE, raised |-> FALSE]
             ELSE [reqs |-> <<first>>, failed |-> (net = "fail"), raised |-> FALSE]

SendTelegramRaises(cfg, message, image_url, net) ==
    IF ~cfg THEN [reqs |-> <<>>, failed |-> FALSE, raised |-> FALSE]
    ELSE LET first == IF image_url # NoImage
                      THEN Request("sendPhoto", message, image_url)
                      ELSE Request("sendMessage", message, NoImage)
         IN  [reqs |-> <<first>>, failed |-> (net = "fail"), raised |-> (net = "fail")]

SendTelegramTextOnly(cfg, message, image_url, net) ==
    IF ~cfg THEN [reqs |-> <<>>, failed |-> FALSE, raised |-> FALSE]
    ELSE [reqs |-> <<Request("sendMessage", message, NoImage)>>,
          failed |-> (net = "fail"), raised |-> FALSE]

SendTelegram(cfg, message, image_url, net) ==
    IF ~cfg THEN [reqs |-> <<>>, failed |-> FALSE, raised |-> FALSE]
    ELSE LET first == IF image_url # NoImage
                      THEN Request("sendPhoto", message, image_url)
                      ELSE Request("sendMessage", message, NoImage)
         IN  [reqs |-> <<first>>, failed |-> (net = "fail"), raised |-> FALSE]

\* ----------------------------------------------------------------- Parser
\* The ripper's stdout is a sequence of lines, a line a sequence of tokens
\* separated by single blanks. "_" is one more blank; a name such as
\* "Pink Floyd" is one token. "#1 (src): ---- A / B ----" is the line
\* <<"#1", "(src):", "----">> \o A \o <<"/">> \o B \o <<"----">>.
Blank == "_"
SelLine(pre, mark, A, B, post) ==
    pre \o <<mark, "(src):", "----">> \o A \o <<"/">> \o B \o <<"----">> \o post
CoverLine(pre, u, post) == pre \o <<"cover URL:", u>> \o post
HttpUrls == CoverUrls \cup {"http://example.org/front.png"}

\* str.strip(): leading and trailing blanks removed.
Strip(toks) ==
    LET keep == {i \in 1..Len(toks) : toks[i] # Blank}
    IN  IF keep = {} THEN <<>>
        ELSE SubSeq(toks, CHOOSE i \in keep : \A j \in keep : i <= j,
                          CHOOSE i \in keep : \A j \in keep : i >= j)

\* The matches of r"#1 \(.*?\): ---- (.+?) / (.+?) ----" in one line, as
\* <<i, j, k>>: "#1" at i, the "/" that ends group 1 at j, the "----" that
\* ends group 2 at k; both groups hold at least one token.
SelMatches(line) ==
    LET n == Len(line)
        starts == {i \in 1..(n - 2) :
                     line[i] = "#1" /\ line[i + 1] = "(src):" /\ line[i + 2] = "----"}
    IN  UNION {UNION {{<<i, j, k>> : k \in {x \in (j + 2)..n : line[x] = "----"}}
                      : j \in {x \in (i + 4)..n : line[x] = "/"}}
               : i \in starts}
Before(m, n) ==
    \/ m[1] < n[1]
    \/ m[1] = n[1] /\ m[2] < n[2]
    \/ m[1] = n[1] /\ m[2] = n[2] /\ m[3] <= n[3]
\* re.search takes the leftmost start, and there the shortest groups.
SelMatch(line) == CHOOSE m \in SelMatches(line) : \A n \in SelMatches(line) : Before(m, n)

\* The matches of r"cover URL: (https?://\S+)" in one line: the position of
\* the URL token.
CoverMatches(line) ==
    {c \in 2..Len(line) : line[c - 1] = "cover URL:" /\ line[c] \in HttpUrls}

\* The first line of the text where the pattern matches, 0 when none does.
FirstOf(log, Matches(_)) ==
    LET idx == {i \in 1..Len(log) : Matches(log[i]) # {}}
    IN  IF idx = {} THEN 0 ELSE CHOOSE i \in idx : \A j \in idx : i <= j

DefaultInfo ==
    [artist |-> <<"Unknown Artist">>, album |-> <<"Unknown Album">>, cover_url |-> NoImage]

ParseAbcdeLogCoupled(log_output) ==
    LET l == FirstOf(log_output, SelMatches)
        c == FirstOf(log_output, CoverMatches)
    IN  IF l = 0 THEN DefaultInfo
        ELSE LET line == log_output[l]
                 m == SelMatch(line)
             IN  [artist    |-> Strip(SubSeq(line, m[1] + 3, m[2] - 1)),
                  album     |-> Strip(SubSeq(line, m[2] + 1, m[3] - 1)),
                  cover_url |-> IF c = 0 THEN NoImage
                                ELSE LET cl == log_output[c]
                                     IN  cl[CHOOSE x \in CoverMatches(cl) :
                                                \A y \in CoverMatches(cl) : x <= y]]

ParseAbcdeLog(log_output) ==
    LET l == FirstOf(log_output, SelMatches)
        c == FirstOf(log_output, CoverMatches)
    IN  [artist    |-> IF l = 0 THEN DefaultInfo.artist
                       ELSE LET line == log_output[l]
                                m == SelMatch(line)
                            IN  Strip(SubSeq(line, m[1] + 3, m[2] - 1)),
         album     |-> IF l = 0 THEN DefaultInfo.album
                       ELSE LET line == log_output[l]
                                m == SelMatch(line)
                            IN  Strip(SubSeq(line, m[2] + 1, m[3] - 1)),
         cover_url |-> IF c = 0 THEN DefaultInfo.cover_url
                       ELSE LET cl == log_output[c]
                            IN  cl[CHOOSE x \in CoverMatches(cl) :
                                       \A y \in CoverMatches(cl) : x <= y]]

\* The ripper outputs main() is run on: without either line, with the
\* selected-candidate line, with the cover line, with both.
Logs ==
    {<<>>,
     <<SelLine(<<>>, "#1", <<"Pink Floyd">>, <<"The Wall">>, <<>>)>>,
     <<CoverLine(<<>>, "https://example.com/cover.jpg", <<>>)>>,
     <<SelLine(<<>>, "#1", <<"Pink Floyd">>, <<"The Wall">>, <<>>),
       CoverLine(<<>>, "https://example.com/cover.jpg", <<>>)>>}

\* The texts parse_abcde_log is checked on: up to MaxLogLines lines, each a
\* selected-candidate line (padded with blanks, with a "/" in the album,
\* after other text, for another candidate number, without the "/"), a
\* cover line (http, https, another scheme) or other text.
Artists == {<<"Pink Floyd">>, <<Blank, "Pink Floyd", Blank>>, <<"Genesis">>}
AlbumTitles == {<<"The Wall">>, <<Blank, "The Wall">>, <<"Foxtrot", "/", "Live">>}
Affixes == {<<>>, <<"Selected:">>}
ParseLines ==
    {SelLine(<<>>, "#1", <<"Pink Floyd">>, <<"The Wall">>, <<>>),
     SelLine(<<"Selected:">>, "#1", <<Blank, "Pink Floyd", Blank>>, <<Blank, "The Wall">>, <<>>),
     SelLine(<<>>, "#1", <<"Genesis">>, <<"Foxtrot", "/", "Live">>, <<>>),
     SelLine(<<>>, "#2", <<"Genesis">>, <<"The Wall">>, <<>>),
     <<"#1", "(src):", "----", "Pink Floyd", "----">>,
     CoverLine(<<>>, "https://example.com/cover.jpg", <<>>),
     CoverLine(<<"Selected:">>, "http://example.org/front.png", <<>>),
     CoverLine(<<>>, "ftp://example.com/cover.jpg", <<>>),
     <<"Grabbing", "track", "1">>,
     <<>>}
ParseTexts == UNION {[1..n -> ParseLines] : n \in 0..MaxLogLines}

\* ------------------------------------------------------------- filesystem
\* shutil.rmtree(temp_rip_dir): the session directory and all below it.
RmtreeKeeps(tree, d) == tree
Rmtree(tree, d) == {e \in tree : e.s # d}

\* final_album_path.exists() (line 159).
PathExists(library, path) == library[path].present

\* shutil.move(album_dir, final_album_path) by process p, album directory
\* named a: "ok" renames it to dst; when dst is an existing directory the
\* source is moved inside it, and shutil.Error is raised when dst/a exists.
MoveResult(library, a, dst) ==
    IF ~library[dst].present THEN "renamed"
    ELSE IF \E e \in library[dst].inner : e[1] = a THEN "error"
    ELSE "nested"

ShutilMove(library, a, dst, p) ==
    CASE MoveResult(library, a, dst) = "renamed" ->
             [library EXCEPT ![dst] = Dir(p, {})]
      [] MoveResult(library, a, dst) = "nested" ->
             [library EXCEPT ![dst].inner = @ \cup {<<a, p>>}]
      [] OTHER -> library

\* The process exit status: sys.exit(c), a normal return, an uncaught exception.
NoPending == [kind |-> "none", code |-> 0]
PendingExc == [kind |-> "exc", code |-> 1]
PendingExit(c) == [kind |-> "exit", code |-> c]
ExitStatus(pend) ==
    IF pend.kind = "none" THEN 0 ELSE pend.code
NoExit == 0 - 1

\* ------------------------------------------------------------------ state
VARIABLES
    env,         \* the outcomes the environment may produce
    active,      \* the invocations of main() that take place
    creds,       \* TELEGRAM_TOKEN and CHAT_ID are both set
    upload,      \* COPYPARTY_URL and COPYPARTY_PASSWORD are both set
    finalRoot,   \* FINAL_MUSIC_DIR exists
    lib,         \* the directories directly under FINAL_MUSIC_DIR
    temp,        \* the entries under TEMP_RIP_DIR_BASE
    pc,          \* each invocation's position in main()
    device,      \* sys.argv[1]
    probeIn,     \* what the drive answered to get_drive_status
    probe,       \* the result of get_drive_status
    tempDir,     \* temp_rip_dir
    calls,       \* the send_telegram calls made, with the requests each issued
    cmds,        \* the external commands launched with subprocess
    stdout,      \* result.stdout of the ripper
    meta,        \* parse_abcde_log's result
    albumDir,    \* album_dir.name
    finalPath,   \* final_album_path
    fault,       \* the exception raised inside the try block, if any
    pending,     \* the exception in flight while the finally block runs
    exitCode     \* the process exit status

vars == <<env, active, creds, upload, finalRoot, lib, temp, pc, device, probeIn, probe,
          tempDir, calls, cmds, stdout, meta, albumDir, finalPath, fault, pending, exitCode>>

\* Entries under TEMP_RIP_DIR_BASE: the session directory itself, its flac
\* directory, and the album directories under flac.
TempEntry(s, kind, a) == [s |-> s, kind |-> kind, a |-> a]
SessionExists(tree, s) == TempEntry(s, "dir", "") \in tree
AlbumDirs(tree, s) == {e.a : e \in {x \in tree : x.s = s /\ x.kind = "album"}}
FlacExists(tree, s) == TempEntry(s, "flac", "") \in tree

\* What the ripper leaves under OUTPUTDIR: no flac directory, or a flac
\* directory holding any set of album directories.
RipOutputs == {{}} \cup {{"flac"} \cup as : as \in SUBSET Albums}
WriteOutput(tree, s, out) ==
    tree \cup {TempEntry(s, "flac", "") : x \in out \cap {"flac"}}
         \cup {TempEntry(s, "album", a) : a \in out \cap Albums}

\* The library before any run. PreNames are the names its directories may
\* bear: an album's own name and the name a collision at second 1 gave it.
\* A suffixed directory may already hold a subdirectory with the album's
\* name, which is what an earlier move into it leaves behind.
PreNames == {<<"X", 0>>, <<"X", 1>>, <<"Y", 0>>}
PreLibraries ==
    {[n \in FinalNames |->
         IF n \in S THEN Dir(0, IF n \in N THEN {<<n[1], 0>>} ELSE {}) ELSE NoDir]
     : <<S, N>> \in {sn \in (SUBSET PreNames) \X (SUBSET PreNames) :
                       sn[2] \subseteq {n \in sn[1] : n[2] # 0}}}

\* The outcomes the environment may produce: the drive's answers, the
\* ripper's results and what it leaves behind and prints, the transport's
\* and the upload commands' and eject's results.
RipResults == {<<"ok", 0>>, <<"notfound", 1>>} \cup {<<"nonzero", c>> : c \in RipCodes \ {0}}
FullEnv ==
    [probe |-> ProbeInputs, rip |-> RipResults, outs |-> RipOutputs, logs |-> Logs,
     net |-> {"ok", "fail"}, cmd |-> CmdResults, eject |-> CmdResults]
\* Two overlapping runs: a ready or an open drive, a ripper that succeeds or
\* exits 1 and leaves album X, no transport failure, upload commands that
\* succeed or exit non-zero, an eject that succeeds.
RaceEnv ==
    [probe |-> {[ok |-> TRUE, status |-> CDS_DISC_OK], [ok |-> TRUE, status |-> CDS_TRAY_OPEN]},
     rip |-> {<<"ok", 0>>, <<"nonzero", 1>>}, outs |-> {{"flac", "X"}}, logs |-> {<<>>},
     net |-> {"ok"}, cmd |-> {"ok", "nonzero"}, eject |-> {"ok"}]

NoProbeInput == [ok |-> FALSE, status |-> 0 - 1]

InitCommon ==
    /\ temp = {}
    /\ pc = [p \in Procs |-> "start"]
    /\ device = [p \in Procs |-> NoDevice]
    /\ probeIn = [p \in Procs |-> NoProbeInput]
    /\ probe = [p \in Procs |-> NoProbe]
    /\ tempDir = [p \in Procs |-> NoSession]
    /\ calls = [p \in Procs |-> <<>>]
    /\ cmds = [p \in Procs |-> <<>>]
    /\ stdout = [p \in Procs |-> <<>>]
    /\ meta = [p \in Procs |-> DefaultInfo]
    /\ albumDir = [p \in Procs |-> ""]
    /\ finalPath = [p \in Procs |-> NoPath]
    /\ fault = [p \in Procs |-> "none"]
    /\ pending = [p \in Procs |-> NoPending]
    /\ exitCode = [p \in Procs |-> NoExit]

\* One invocation of main().
Init ==
    /\ active = {1}
    /\ env = FullEnv
    /\ creds \in BOOLEAN
    /\ upload \in BOOLEAN
    /\ lib \in PreLibraries
    /\ finalRoot \in {b \in BOOLEAN : b \/ \A n \in FinalNames : ~lib[n].present}
    /\ InitCommon

\* Two overlapping invocations of main(), with upload configured and no
\* notification credentials, the library empty or holding album X.
InitConc ==
    /\ active = {1, 2}
    /\ env = RaceEnv
    /\ creds = FALSE
    /\ upload = TRUE
    /\ lib \in {l \in PreLibraries : \A n \in FinalNames : l[n].present => n = <<"X", 0>>}
    /\ finalRoot = TRUE
    /\ InitCommon

\* ---------------------------------------------------------------- actions
Call(message, image_url, r) ==
    [msg |-> message, image |-> image_url, reqs |-> r.reqs, failed |-> r.failed]
Cmd(name, res, code, path) == [cmd |-> name, res |-> res, code |-> code, path |-> path]

\* Lines 111-115 on sys.argv: the exit status when the device argument is
\* missing (NoExit: the run goes on), and the device name.
Argvs == {<<"rip-audio-cd.py">>} \cup {<<"rip-audio-cd.py", d>> : d \in Devices}
ArgCheckExitsZero(argv) ==
    IF Len(argv) < 2 THEN [exit |-> 0, device_name |-> NoDevice]
    ELSE [exit |-> NoExit, device_name |-> argv[2]]
ArgCheck(argv) ==
    IF Len(argv) < 2 THEN [exit |-> 1, device_name |-> NoDevice]
    ELSE [exit |-> NoExit, device_name |-> argv[2]]

\* Lines 111-118: the argument check.
Start(p) ==
    /\ p \in active /\ pc[p] = "start"
    /\ \E argv \in Argvs :
         LET r == ArgCheck(argv)
         IN  IF r.exit # NoExit
             THEN /\ pc' = [pc EXCEPT ![p] = "done"]
                  /\ exitCode' = [exitCode EXCEPT ![p] = r.exit]
                  /\ UNCHANGED device
             ELSE /\ pc' = [pc EXCEPT ![p] = "probe"]
                  /\ device' = [device EXCEPT ![p] = r.device_name]
                  /\ UNCHANGED exitCode
    /\ UNCHANGED <<env, active, creds, upload, finalRoot, lib, temp, probeIn, probe, tempDir, calls,
                   cmds, stdout, meta, albumDir, finalPath, fault, pending>>

\* Lines 120-124: the probe gate.
ProbeGate(p) ==
    /\ p \in active /\ pc[p] = "probe"
    /\ \E raw \in env.probe :
         LET r == GetDriveStatus(raw)
         IN  /\ probeIn' = [probeIn EXCEPT ![p] = raw]
             /\ probe' = [probe EXCEPT ![p] = r]
             /\ IF ~r.ready
                THEN /\ pc' = [pc EXCEPT ![p] = "done"]
                     /\ exitCode' = [exitCode EXCEPT ![p] = 0]
                ELSE /\ pc' = [pc EXCEPT ![p] = "mktemp"]
                     /\ UNCHANGED exitCode
    /\ UNCHANGED <<env, active, creds, upload, finalRoot, lib, temp, device, tempDir, calls,
                   cmds, stdout, meta, albumDir, finalPath, fault, pending>>

\* Lines 126-132: the session directory. mkdir() raises FileExistsError,
\* outside the try block, when the name is taken.
MkTemp(p) ==
    /\ p \in active /\ pc[p] = "mktemp"
    /\ \E t \in Times :
         LET d == TempName(device[p], p, t)
         IN  IF SessionExists(temp, d)
             THEN /\ pc' = [pc EXCEPT ![p] = "done"]
                  /\ exitCode' = [exitCode EXCEPT ![p] = 1]
                  /\ UNCHANGED <<temp, tempDir>>
             ELSE /\ temp' = temp \cup {TempEntry(d, "dir", "")}
                  /\ tempDir' = [tempDir EXCEPT ![p] = d]
                  /\ pc' = [pc EXCEPT ![p] = "notify_start"]
                  /\ UNCHANGED exitCode
    /\ UNCHANGED <<env, active, creds, upload, finalRoot, lib, device, probeIn, probe, calls,
                   cmds, stdout, meta, albumDir, finalPath, fault, pending>>

\* Line 136: the rip-started notification, sent before the try block: an
\* exception leaving send_telegram would end the process with no cleanup.
NotifyStarted(p) ==
    /\ p \in active /\ pc[p] = "notify_start"
    /\ \E net \in env.net :
         LET m == Msg("Started", DevicePath(device[p]), 0, <<>>, <<>>, NoPath)
             r == SendTelegram(creds, m, NoImage, net)
         IN  /\ calls' = [calls EXCEPT ![p] = Append(@, Call(m, NoImage, r))]
             /\ IF r.raised
                THEN /\ pc' = [pc EXCEPT ![p] = "done"]
                     /\ exitCode' = [exitCode EXCEPT ![p] = 1]
                ELSE /\ pc' = [pc EXCEPT ![p] = "rip"]
                     /\ UNCHANGED exitCode
    /\ UNCHANGED <<env, active, creds, upload, finalRoot, lib, temp, device, probeIn, probe, tempDir,
                   cmds, stdout, meta, albumDir, finalPath, fault, pending>>

\* Where main() goes after subprocess.run of the ripper (check=True): on to
\* the relocation, to the except clause of line 192, or, for an exception
\* that clause does not catch, to the finally block.
AfterRipUnchecked(res) ==
    CASE res = "ok" -> "locate"
      [] res = "nonzero" -> "locate"
      [] OTHER -> "cleanup"
AfterRip(res) ==
    CASE res = "ok" -> "locate"
      [] res = "nonzero" -> "notify_failed"
      [] OTHER -> "cleanup"

\* Lines 140-146: the ripper. check=True raises CalledProcessError on a
\* non-zero exit; a ripper that cannot be launched raises FileNotFoundError,
\* which the except clause of line 192 does not catch.
Rip(p) ==
    /\ p \in active /\ pc[p] = "rip"
    /\ \E rr \in env.rip, out \in env.outs, log \in env.logs :
         LET res == rr[1]
             rc == rr[2]
         IN  /\ res = "notfound" => out = {}
             /\ res # "ok" => log = <<>>
             /\ cmds' = [cmds EXCEPT ![p] = Append(@, Cmd("abcde", res, rc, NoPath))]
             /\ temp' = WriteOutput(temp, tempDir[p], out)
             /\ pc' = [pc EXCEPT ![p] = AfterRip(res)]
             /\ CASE res = "ok" ->
                       /\ stdout' = [stdout EXCEPT ![p] = log]
                       /\ meta' = [meta EXCEPT ![p] = ParseAbcdeLog(log)]
                       /\ UNCHANGED <<fault, pending>>
                  [] res = "nonzero" ->
                       /\ fault' = [fault EXCEPT ![p] = "ripper_exit"]
                       /\ UNCHANGED <<stdout, meta, pending>>
                  [] res = "notfound" ->
                       /\ fault' = [fault EXCEPT ![p] = "ripper_missing"]
                       /\ pending' = [pending EXCEPT ![p] = PendingExc]
                       /\ UNCHANGED <<stdout, meta>>
    /\ UNCHANGED <<env, active, creds, upload, finalRoot, lib, device, probeIn, probe, tempDir,
                   calls, albumDir, finalPath, exitCode>>

\* Lines 149-157: list the album directories under <temp>/flac, take the
\* first in directory order, make sure FINAL_MUSIC_DIR exists. iterdir()
\* raises FileNotFoundError when flac is missing, line 152 when it holds no
\* directory; neither is a CalledProcessError.
Locate(p) ==
    /\ p \in active /\ pc[p] = "locate"
    /\ IF ~FlacExists(temp, tempDir[p]) \/ AlbumDirs(temp, tempDir[p]) = {}
       THEN /\ fault' = [fault EXCEPT ![p] = "no_output"]
            /\ pending' = [pending EXCEPT ![p] = PendingExc]
            /\ pc' = [pc EXCEPT ![p] = "cleanup"]
            /\ UNCHANGED <<albumDir, finalPath, finalRoot>>
       ELSE \E a \in AlbumDirs(temp, tempDir[p]) :
              /\ albumDir' = [albumDir EXCEPT ![p] = a]
              /\ finalRoot' = TRUE
              /\ finalPath' = [finalPath EXCEPT ![p] = <<a, 0>>]
              /\ pc' = [pc EXCEPT ![p] = "check"]
              /\ UNCHANGED <<fault, pending>>
    /\ UNCHANGED <<env, active, creds, upload, lib, temp, device, probeIn, probe, tempDir, calls,
                   cmds, stdout, meta, exitCode>>

\* Lines 159-160: the collision check.
CheckCollision(p) ==
    /\ p \in active /\ pc[p] = "check"
    /\ IF PathExists(lib, finalPath[p])
       THEN \E t \in Times : finalPath' = [finalPath EXCEPT ![p] = <<albumDir[p], t>>]
       ELSE UNCHANGED finalPath
    /\ pc' = [pc EXCEPT ![p] = "move"]
    /\ UNCHANGED <<env, active, creds, upload, finalRoot, lib, temp, device, probeIn, probe, tempDir,
                   calls, cmds, stdout, meta, albumDir, fault, pending, exitCode>>

\* Lines 162-166: the move. shutil.Error is not a CalledProcessError.
MoveAlbum(p) ==
    /\ p \in active /\ pc[p] = "move"
    /\ IF MoveResult(lib, albumDir[p], finalPath[p]) = "error"
       THEN /\ fault' = [fault EXCEPT ![p] = "move_error"]
            /\ pending' = [pending EXCEPT ![p] = PendingExc]
            /\ pc' = [pc EXCEPT ![p] = "cleanup"]
            /\ UNCHANGED <<lib, temp>>
       ELSE /\ lib' = ShutilMove(lib, albumDir[p], finalPath[p], p)
            /\ temp' = temp \ {TempEntry(tempDir[p], "album", albumDir[p])}
            /\ pc' = [pc EXCEPT ![p] = IF upload THEN "upload" ELSE "notify_done"]
            /\ UNCHANGED <<fault, pending>>
    /\ UNCHANGED <<env, active, creds, upload, finalRoot, device, probeIn, probe, tempDir, calls,
                   cmds, stdout, meta, albumDir, finalPath, exitCode>>

\* Where main() goes after the two upload commands: the except clause of
\* line 176 catches the failure of either.
AfterUploadUncaught(r1, r2) ==
    IF r1 = "ok" /\ r2 = "ok" THEN "notify_done"
    ELSE IF r1 = "nonzero" \/ r2 = "nonzero" THEN "notify_failed"
    ELSE "notify_upload"
AfterUpload(r1, r2) ==
    IF r1 = "ok" /\ r2 = "ok" THEN "notify_done" ELSE "notify_upload"

\* Lines 167-177: systemd-escape, then systemctl start; a non-zero exit
\* (CalledProcessError) or a missing command (FileNotFoundError) of either
\* is caught at line 176.
TriggerUpload(p) ==
    /\ p \in active /\ pc[p] = "upload"
    /\ \E r1 \in env.cmd, r2 \in env.cmd :
         /\ r1 # "ok" => r2 = "ok"
         /\ cmds' = [cmds EXCEPT ![p] =
                IF r1 = "ok"
                THEN @ \o <<Cmd("systemd-escape", r1, 0, finalPath[p]),
                            Cmd("systemctl start", r2, IF r2 = "nonzero" THEN 1 ELSE 0,
                                finalPath[p])>>
                ELSE Append(@, Cmd("systemd-escape", r1, IF r1 = "nonzero" THEN 1 ELSE 0,
                                   finalPath[p]))]
         /\ pc' = [pc EXCEPT ![p] = AfterUpload(r1, r2)]
    /\ UNCHANGED <<env, active, creds, upload, finalRoot, lib, temp, device, probeIn, probe, tempDir,
                   calls, stdout, meta, albumDir, finalPath, fault, pending, exitCode>>

\* A notification sent inside the try block: an exception leaving
\* send_telegram would not be a CalledProcessError and would reach the
\* finally block.
NotifyInTry(p, m, image_url, next, pend) ==
    \E net \in env.net :
      LET r == SendTelegram(creds, m, image_url, net)
      IN  /\ calls' = [calls EXCEPT ![p] = Append(@, Call(m, image_url, r))]
          /\ pc' = [pc EXCEPT ![p] = IF r.raised THEN "cleanup" ELSE next]
          /\ pending' = [pending EXCEPT ![p] = IF r.raised THEN PendingExc ELSE pend]
          /\ fault' = [fault EXCEPT ![p] = IF r.raised THEN "notify" ELSE @]

\* Lines 178-180.
NotifyUploadFailed(p) ==
    /\ p \in active /\ pc[p] = "notify_upload"
    /\ NotifyInTry(p, Msg("UploadFailed", DevicePath(device[p]), 0, <<>>, <<>>, finalPath[p]),
                   NoImage, "notify_done", pending[p])
    /\ UNCHANGED <<env, active, creds, upload, finalRoot, lib, temp, device, probeIn, probe, tempDir,
                   cmds, stdout, meta, albumDir, finalPath, exitCode>>

\* Lines 183-190.
NotifyCompleted(p) ==
    /\ p \in active /\ pc[p] = "notify_done"
    /\ NotifyInTry(p, Msg("Completed", DevicePath(device[p]), 0, meta[p].artist,
                          meta[p].album, NoPath),
                   meta[p].cover_url, "cleanup", pending[p])
    /\ UNCHANGED <<env, active, creds, upload, finalRoot, lib, temp, device, probeIn, probe, tempDir,
                   cmds, stdout, meta, albumDir, finalPath, exitCode>>

\* e.returncode of the CalledProcessError the ripper raised.
ReturnCode(p) == cmds[p][Len(cmds[p])].code

\* Lines 192-200: the ripper's failure, then sys.exit(e.returncode).
NotifyFailed(p) ==
    /\ p \in active /\ pc[p] = "notify_failed"
    /\ NotifyInTry(p, Msg("Failed", DevicePath(device[p]), ReturnCode(p), <<>>, <<>>, NoPath),
                   NoImage, "cleanup", PendingExit(ReturnCode(p)))
    /\ UNCHANGED <<env, active, creds, upload, finalRoot, lib, temp, device, probeIn, probe, tempDir,
                   cmds, stdout, meta, albumDir, finalPath, exitCode>>

\* Lines 204-206: the finally block removes the session directory.
Cleanup(p) ==
    /\ p \in active /\ pc[p] = "cleanup"
    /\ temp' = IF SessionExists(temp, tempDir[p]) THEN Rmtree(temp, tempDir[p]) ELSE temp
    /\ pc' = [pc EXCEPT ![p] = "eject"]
    /\ UNCHANGED <<env, active, creds, upload, finalRoot, lib, device, probeIn, probe, tempDir, calls,
                   cmds, stdout, meta, albumDir, finalPath, fault, pending, exitCode>>

\* Lines 209-210: eject with check=False: a non-zero exit is ignored, but an
\* eject command that cannot be launched raises FileNotFoundError inside the
\* finally block, which replaces whatever was in flight. Then the process
\* ends: with sys.exit's code, with 0 on a normal return, with 1 on an
\* uncaught exception.
Eject(p) ==
    /\ p \in active /\ pc[p] = "eject"
    /\ \E r \in env.eject :
         LET pend == IF r = "notfound" THEN PendingExc ELSE pending[p]
         IN  /\ cmds' = [cmds EXCEPT ![p] = Append(@, Cmd("eject", r, 0, NoPath))]
             /\ pending' = [pending EXCEPT ![p] = pend]
             /\ exitCode' = [exitCode EXCEPT ![p] = ExitStatus(pend)]
    /\ pc' = [pc EXCEPT ![p] = "done"]
    /\ UNCHANGED <<env, active, creds, upload, finalRoot, lib, temp, device, probeIn, probe, tempDir,
                   calls, stdout, meta, albumDir, finalPath, fault>>

Next ==
    \E p \in Procs :
        \/ Start(p)
        \/ ProbeGate(p)
        \/ MkTemp(p)
        \/ NotifyStarted(p)
        \/ Rip(p)
        \/ Locate(p)
        \/ CheckCollision(p)
        \/ MoveAlbum(p)
        \/ TriggerUpload(p)
        \/ NotifyUploadFailed(p)
        \/ NotifyCompleted(p)
        \/ NotifyFailed(p)
        \/ Cleanup(p)
        \/ Eject(p)

Spec == Init /\ [][Next]_vars

\* ------------------------------------------------- vocabulary of the claims
Done(p) == pc[p] = "done"
CallsWith(p, tag) == {i \in 1..Len(calls[p]) : calls[p][i].msg.tag = tag}
CmdsOf(p, name) == {i \in 1..Len(cmds[p]) : cmds[p][i].cmd = name}
CreatedSession(p) == tempDir[p] # NoSession
SessionGone(p) == \A e \in temp : e.s # tempDir[p]
\* The ripper exited with the non-zero code c.
RipperExited(p, c) ==
    \E i \in CmdsOf(p, "abcde") : cmds[p][i].res = "nonzero" /\ cmds[p][i].code = c
RipperSucceeded(p) == \E i \in CmdsOf(p, "abcde") : cmds[p][i].res = "ok"
EjectResult(p, r) == \E i \in CmdsOf(p, "eject") : cmds[p][i].res = r
UploadFailed(p) ==
    \E i \in CmdsOf(p, "systemd-escape") \cup CmdsOf(p, "systemctl start") :
        cmds[p][i].res # "ok"

\* C1: on every exit path taken after the session directory was created, when
\* the process has ended the session directory no longer exists and eject has
\* been launched exactly once.
C1_CleanupLaw ==
    \A p \in Procs :
        (Done(p) /\ CreatedSession(p)) =>
            (SessionGone(p) /\ Cardinality(CmdsOf(p, "eject")) = 1)

\* C1 witness: a run that ended after shutil.move raised during relocation.
C1_Witness ==
    \E p \in Procs : Done(p) /\ CreatedSession(p) /\ fault[p] = "move_error"

\* C2: a ripper that exits 0 and leaves no album directory is handled like a
\* ripper failure: a failure notification for the device, a non-zero exit
\* status, no completion notification.
C2_MissingOutputLikeRipperFailure ==
    \A p \in Procs :
        (Done(p) /\ fault[p] = "no_output") =>
            /\ \E i \in CallsWith(p, "Failed") :
                   calls[p][i].msg.device = DevicePath(device[p])
            /\ exitCode[p] # 0
            /\ CallsWith(p, "Completed") = {}

\* C3: the exit status is 1 without a device argument, 0 when the probe gate
\* aborts, 0 when rip, relocation and notification completed, and the
\* ripper's own code when the ripper exited non-zero.
C3_ExitCodes ==
    \A p \in Procs :
        Done(p) =>
            /\ device[p] = NoDevice => exitCode[p] = 1
            /\ (probe[p] # NoProbe /\ ~probe[p].ready) => exitCode[p] = 0
            /\ CallsWith(p, "Completed") # {} => exitCode[p] = 0
            /\ \A c \in RipCodes \ {0} : RipperExited(p, c) => exitCode[p] = c

\* C4: past the probe, the run goes on to the session directory and the
\* ripper exactly when the outcome is DiscReady or ProbeFailed; on every other
\* outcome it has ended with status 0, no notification, no session directory
\* and no ripper.
Proceeded(p) == pc[p] = "mktemp" \/ CreatedSession(p)
C4_ProbeGate ==
    \A p \in Procs :
        probe[p] # NoProbe =>
            /\ Proceeded(p) <=> probe[p].msg \in {"Disc Present", "Check Failed"}
            /\ (Proceeded(p) /\ Done(p)) => CmdsOf(p, "abcde") # {}
            /\ ~Proceeded(p) =>
                  /\ Done(p) /\ exitCode[p] = 0
                  /\ calls[p] = <<>> /\ cmds[p] = <<>>
                  /\ \A e \in temp : e.s[2] # p

\* C4 witness: the probe returned an unrecognised status and the run ended.
C4_Witness ==
    \E p \in Procs : probe[p].msg = "Unknown Status" /\ Done(p) /\ exitCode[p] = 0

\* C5: after the ripper exited with a non-zero code c there is exactly one
\* failure notification, naming the device and c, no relocation, no upload
\* command, no completion notification, the session directory is gone, eject
\* was launched, and the exit status is c.
C5_RipperFailure ==
    \A p \in Procs : \A c \in RipCodes \ {0} :
        (Done(p) /\ RipperExited(p, c)) =>
            /\ Cardinality(CallsWith(p, "Failed")) = 1
            /\ \A i \in CallsWith(p, "Failed") :
                   /\ calls[p][i].msg.device = DevicePath(device[p])
                   /\ calls[p][i].msg.code = c
            /\ albumDir[p] = "" /\ finalPath[p] = NoPath
            /\ \A n \in FinalNames : lib[n].origin # p /\ \A e \in lib[n].inner : e[2] # p
            /\ CmdsOf(p, "systemd-escape") = {} /\ CmdsOf(p, "systemctl start") = {}
            /\ CallsWith(p, "Completed") = {}
            /\ SessionGone(p)
            /\ Cardinality(CmdsOf(p, "eject")) = 1
            /\ exitCode[p] = c

\* C6: with upload configured, a failed upload trigger yields an
\* upload-trigger-failed notification and still the completion notification,
\* the cleanup and the eject, and the exit status stays 0.
C6_UploadFailureNonFatal ==
    \A p \in Procs :
        (Done(p) /\ upload /\ UploadFailed(p)) =>
            /\ CallsWith(p, "UploadFailed") # {}
            /\ CallsWith(p, "Completed") # {}
            /\ SessionGone(p)
            /\ Cardinality(CmdsOf(p, "eject")) = 1
            /\ exitCode[p] = 0

\* C7: when the album's name was taken at the final destination, the album
\* ends up as the directory name-<timestamp> directly under the final
\* destination, and no directory that was there before has anything moved
\* into it.
Relocated(p) == albumDir[p] # "" /\ pc[p] \notin {"check", "move"}
C7_CollisionLaw ==
    \A p \in Procs :
        (Relocated(p) /\ finalPath[p][2] # 0) =>
            /\ lib[finalPath[p]] = Dir(p, {})
            /\ \A n \in FinalNames :
                   (lib[n].present /\ lib[n].origin = 0) =>
                       \A e \in lib[n].inner : e[2] = 0

\* C8: a send_telegram call issues no request without credentials, and
\* whatever the transport does the run goes on to the same next step with no
\* exception in flight, the exit status, the file system and the recorded
\* fault as they were.
AfterSend(at) ==
    CASE at = "notify_start" -> "rip"
      [] at = "notify_upload" -> "notify_done"
      [] at = "notify_done" -> "cleanup"
      [] at = "notify_failed" -> "cleanup"
      [] OTHER -> "none"
C8_NotifierNeverAffectsRun ==
    [][\A p \in Procs :
          Len(calls'[p]) > Len(calls[p]) =>
              /\ ~creds => calls'[p][Len(calls'[p])].reqs = <<>>
              /\ pc'[p] = AfterSend(pc[p])
              /\ pending'[p].kind # "exc"
              /\ exitCode'[p] = exitCode[p]
              /\ fault'[p] = fault[p]
              /\ temp' = temp /\ lib' = lib]_vars

\* C8 witness: a notification failed in transport and the run still ended
\* with status 0.
C8_Witness ==
    \E p \in Procs :
        /\ Done(p) /\ exitCode[p] = 0
        /\ \E i \in 1..Len(calls[p]) : calls[p][i].failed

\* C9 as stated: a photo request that failed in transport is followed by one
\* text-only request with the same message.
C9_RetryAsText ==
    \A p \in Procs : \A i \in 1..Len(calls[p]) :
        (calls[p][i].image # NoImage /\ calls[p][i].failed) =>
            /\ Len(calls[p][i].reqs) = 2
            /\ calls[p][i].reqs[2] = Request("sendMessage", calls[p][i].msg, NoImage)

\* C9 amended: send_telegram never retries: with credentials every call
\* issues exactly one request, a photo request when an image URL is given and
\* a text request otherwise, also when the transport fails; without
\* credentials none.
C9_NoRetry ==
    \A p \in Procs : \A i \in 1..Len(calls[p]) :
        LET c == calls[p][i]
        IN  /\ Len(c.reqs) <= 1
            /\ creds =>
                 c.reqs = <<Request(IF c.image # NoImage THEN "sendPhoto" ELSE "sendMessage",
                                    c.msg, c.image)>>

\* C9 witness: a photo request failed in transport.
C9_Witness ==
    \E p \in Procs : \E i \in 1..Len(calls[p]) :
        calls[p][i].image # NoImage /\ calls[p][i].failed

\* C10: however eject fails, the exit status is 0 after a successful rip and
\* the ripper's code after a ripper failure.
C10_EjectFailureIgnored ==
    \A p \in Procs :
        (Done(p) /\ (EjectResult(p, "nonzero") \/ EjectResult(p, "notfound"))) =>
            /\ (RipperSucceeded(p) /\ fault[p] = "none") => exitCode[p] = 0
            /\ \A c \in RipCodes \ {0} : RipperExited(p, c) => exitCode[p] = c

\* C11: get_drive_status maps status 4 to ready with "Disc Present", 2 to
\* "Tray Open", 1 to "No Disc", 3 to "Drive Not Ready" and every other
\* integer to "Unknown Status (n)", these four not ready; a failed open or
\* query maps to ready with "Check Failed".
C11_StatusMapping ==
    \A p \in Procs :
        probeIn[p] # NoProbeInput =>
            LET st == probeIn[p].status
                r == probe[p]
            IN  IF ~probeIn[p].ok
                THEN r.ready /\ r.msg = "Check Failed"
                ELSE /\ st = 4 => (r.ready /\ r.msg = "Disc Present")
                     /\ st = 2 => (~r.ready /\ r.msg = "Tray Open")
                     /\ st = 1 => (~r.ready /\ r.msg = "No Disc")
                     /\ st = 3 => (~r.ready /\ r.msg = "Drive Not Ready")
                     /\ st \notin {1, 2, 3, 4} =>
                           (~r.ready /\ r.msg = "Unknown Status" /\ r.detail = <<st>>)

\* C11 witness: the drive answered a status of 0 or below.
C11_Witness ==
    \E p \in Procs : probeIn[p].ok /\ probeIn[p].status <= 0 /\ probe[p].msg = "Unknown Status"

\* C12: once the try block has ended without an exception there is exactly
\* one completion notification; it carries the artist and album parsed from
\* the ripper's stdout and the device path, and it is sent with the parsed
\* cover URL as a photo request, or as a text request when there is none.
Succeeded(p) ==
    RipperSucceeded(p) /\ fault[p] = "none" /\ pc[p] \in {"cleanup", "eject", "done"}
C12_CompletionNotification ==
    \A p \in Procs :
        Succeeded(p) =>
            /\ Cardinality(CallsWith(p, "Completed")) = 1
            /\ \A i \in CallsWith(p, "Completed") :
                 LET c == calls[p][i]
                     info == meta[p]
                 IN  /\ info = ParseAbcdeLog(stdout[p])
                     /\ c.msg.artist = info.artist
                     /\ c.msg.album = info.album
                     /\ c.msg.device = DevicePath(device[p])
                     /\ c.image = info.cover_url
                     /\ creds =>
                          c.reqs = <<Request(IF info.cover_url # NoImage
                                             THEN "sendPhoto" ELSE "sendMessage",
                                             c.msg, info.cover_url)>>

\* C12 witness: a completed run with credentials whose output named the
\* artist and a cover URL.
C12_Witness ==
    \E p \in Procs :
        /\ Succeeded(p) /\ creds
        /\ meta[p].cover_url \in CoverUrls
        /\ meta[p].artist = <<"Pink Floyd">>

\* C13: a run without a device argument ends with status 1 and has not
\* probed the drive, created a session directory, sent a notification or
\* launched any command (ripper, eject).
C13_UsageError ==
    \A p \in Procs :
        (Done(p) /\ device[p] = NoDevice) =>
            /\ exitCode[p] = 1
            /\ probeIn[p] = NoProbeInput /\ probe[p] = NoProbe
            /\ tempDir[p] = NoSession /\ (\A e \in temp : e.s[2] # p)
            /\ calls[p] = <<>>
            /\ cmds[p] = <<>>

\* C13 witness: a run that ended at the argument check.
C13_Witness ==
    \E p \in Procs : Done(p) /\ device[p] = NoDevice /\ exitCode[p] # NoExit

\* ------------------------------------------- parse_abcde_log on its own
\* No invocation of main(): parse_abcde_log is applied to one of ParseTexts.
InitParse ==
    /\ active = {}
    /\ env = FullEnv
    /\ creds = FALSE
    /\ upload = FALSE
    /\ finalRoot = FALSE
    /\ lib = [n \in FinalNames |-> NoDir]
    /\ InitCommon

\* Lines 93-106 applied to the text t.
ParseStep ==
    /\ active = {} /\ pc[1] = "start"
    /\ \E t \in ParseTexts :
         /\ stdout' = [stdout EXCEPT ![1] = t]
         /\ meta' = [meta EXCEPT ![1] = ParseAbcdeLog(t)]
    /\ pc' = [pc EXCEPT ![1] = "parsed"]
    /\ UNCHANGED <<env, active, creds, upload, finalRoot, lib, temp, device, probeIn, probe,
                   tempDir, calls, cmds, albumDir, finalPath, fault, pending, exitCode>>

NextParse == ParseStep

SpecParse == InitParse /\ [][NextParse]_vars

\* C14: parse_abcde_log returns a result for every text. When a line reads
\* "#1 (src): ---- A / B ----" the artist and album are A and B of the first
\* such line, without the surrounding blanks, and the defaults otherwise; when
\* a line reads "cover URL: <url>" the cover URL is the URL of the first such
\* line, and none otherwise; artist and album are what they are for the text
\* with its cover lines erased, and the cover URL what it is for the text with
\* its candidate lines erased.
Unpadded(name) == SelectSeq(name, LAMBDA x : x # Blank)
IsCandidate(line, A, B) ==
    \E pre \in Affixes, post \in Affixes : line = SelLine(pre, "#1", A, B, post)
IsCover(line, u) ==
    \E pre \in Affixes, post \in Affixes : line = CoverLine(pre, u, post)
CandidateLines(t) ==
    {i \in 1..Len(t) : \E A \in Artists, B \in AlbumTitles : IsCandidate(t[i], A, B)}
CoverLines(t) == {i \in 1..Len(t) : \E u \in HttpUrls : IsCover(t[i], u)}
Erased(t, S) == [i \in 1..Len(t) |-> IF i \in S THEN <<"Grabbing", "track", "1">> ELSE t[i]]
Lowest(S) == CHOOSE i \in S : \A j \in S : i <= j
C14_ParseLaw ==
    \A p \in Procs :
        pc[p] = "parsed" =>
            LET t == stdout[p]
                r == meta[p]
                cand == CandidateLines(t)
                cov == CoverLines(t)
            IN  /\ DOMAIN r = {"artist", "album", "cover_url"}
                /\ cand # {} =>
                     \E A \in Artists, B \in AlbumTitles :
                         /\ IsCandidate(t[Lowest(cand)], A, B)
                         /\ r.artist = Unpadded(A)
                         /\ r.album = Unpadded(B)
                /\ cand = {} =>
                     r.artist = <<"Unknown Artist">> /\ r.album = <<"Unknown Album">>
                /\ cov # {} => \E u \in HttpUrls : IsCover(t[Lowest(cov)], u) /\ r.cover_url = u
                /\ cov = {} => r.cover_url = NoImage
                /\ r.artist = ParseAbcdeLog(Erased(t, cov)).artist
                /\ r.album = ParseAbcdeLog(Erased(t, cov)).album
                /\ r.cover_url = ParseAbcdeLog(Erased(t, cand)).cover_url

\* C14 witness: a text whose first line is a cover line and whose second is a
\* candidate line with padded names after other text: the cover URL and the
\* trimmed names are both found.
C14_Witness ==
    /\ pc[1] = "parsed"
    /\ Len(stdout[1]) = 2
    /\ \E u \in HttpUrls : IsCover(stdout[1][1], u)
    /\ stdout[1][2] = SelLine(<<"Selected:">>, "#1", <<Blank, "Pink Floyd", Blank>>,
                              <<Blank, "The Wall">>, <<>>)
    /\ meta[1].artist = <<"Pink Floyd">>
    /\ meta[1].cover_url # NoImage

\* C15: every step of main() stays in its workflow stage or moves to a later
\* one (Start 1, ProbeGate 2, Ripping 3, Relocating 4, Uploading 5,
\* Notifying 6, Cleanup 7, Exit 8). The session directory is created only
\* after the probe; the rip-started notification is sent while the session
\* directory exists and before the ripper is launched, and the ripper only
\* after it; relocation is entered only after the ripper returned 0; the
\* completion or failure notification is sent while the session directory
\* still exists; eject is launched only when the session directory is gone;
\* and an ended process launches nothing more.
Stage(at) ==
    CASE at = "start" -> 1
      [] at = "probe" -> 2
      [] at \in {"mktemp", "notify_start", "rip"} -> 3
      [] at \in {"locate", "check", "move"} -> 4
      [] at \in {"upload", "notify_upload"} -> 5
      [] at \in {"notify_done", "notify_failed"} -> 6
      [] at \in {"cleanup", "eject"} -> 7
      [] at = "done" -> 8
Sent(p, tag) == CallsWith(p, tag) # {}
C15_StageOrder ==
    [][\A p \in Procs :
          /\ Stage(pc[p]) <= Stage(pc'[p])
          /\ (tempDir'[p] # tempDir[p]) => (probe[p] # NoProbe /\ Stage(pc[p]) = 3)
          /\ (Sent(p, "Started")' /\ ~Sent(p, "Started")) =>
                 (SessionExists(temp, tempDir[p]) /\ CmdsOf(p, "abcde") = {})
          /\ (CmdsOf(p, "abcde")' # {} /\ CmdsOf(p, "abcde") = {}) =>
                 (Len(calls[p]) = 1 /\ Sent(p, "Started"))
          /\ Stage(pc'[p]) = 4 => RipperSucceeded(p)'
          /\ (pc'[p] # pc[p] /\ lib' # lib) => (Stage(pc[p]) = 4 /\ RipperSucceeded(p))
          /\ (Len(calls'[p]) > Len(calls[p]) /\ (Sent(p, "Completed")' \/ Sent(p, "Failed")')) =>
                 (SessionExists(temp, tempDir[p]) /\ SessionExists(temp', tempDir[p])
                    /\ CmdsOf(p, "eject") = {})
          /\ (CmdsOf(p, "eject")' # {} /\ CmdsOf(p, "eject") = {}) =>
                 (SessionGone(p) /\ Stage(pc[p]) = 7)
          /\ Done(p) => (Done(p)' /\ cmds'[p] = cmds[p] /\ calls'[p] = calls[p])]_vars

\* C15 witness: a run that went through every stage: probe, session
\* directory, rip-started notification, ripper, relocation, upload commands,
\* completion notification, cleanup, eject, exit.
C15_Witness ==
    \E p \in Procs :
        /\ Done(p) /\ probe[p].ready /\ CreatedSession(p)
        /\ Sent(p, "Started") /\ Sent(p, "Completed")
        /\ RipperSucceeded(p) /\ Relocated(p)
        /\ CmdsOf(p, "systemctl start") # {}
        /\ SessionGone(p) /\ CmdsOf(p, "eject") # {}

\* C16: the escape and the start command are each launched at most once, only
\* with upload configured and only after the album was moved; the path they
\* name is the directory the moved album now is; and without upload
\* configured neither is launched and a run whose rip and relocation
\* succeeded ends with status 0.
UploadCmds(p) == CmdsOf(p, "systemd-escape") \cup CmdsOf(p, "systemctl start")
C16_UploadOnce ==
    \A p \in Procs :
        /\ Cardinality(CmdsOf(p, "systemd-escape")) <= 1
        /\ Cardinality(CmdsOf(p, "systemctl start")) <= 1
        /\ UploadCmds(p) # {} => (upload /\ Relocated(p) /\ fault[p] = "none")
C16_UploadNamesMovedPath ==
    \A p \in Procs : \A i \in UploadCmds(p) :
        /\ cmds[p][i].path = finalPath[p]
        /\ lib[cmds[p][i].path] = Dir(p, {})
C16_NoUploadStillSucceeds ==
    \A p \in Procs :
        ~upload =>
            /\ UploadCmds(p) = {}
            /\ (Done(p) /\ Succeeded(p)) => exitCode[p] = 0
\* C16: the three parts together.
C16_UploadLaw ==
    C16_UploadOnce /\ C16_UploadNamesMovedPath /\ C16_NoUploadStillSucceeds

\* ------------------------------------------- two overlapping invocations
SpecConc == InitConc /\ [][Next]_vars

\* C17: two overlapping invocations never share a session directory, neither
\* fails to create its own, and every step of one of them (its ripper
\* writing, its relocation, its cleanup) leaves every entry of the other's
\* session directory as it was.
OwnEntries(tree, p) == {e \in tree : e.s = tempDir[p]}
C17_SessionIsolation ==
    [][\A p \in Procs : \A q \in Procs \ {p} :
          /\ (CreatedSession(p)' /\ CreatedSession(q)') => tempDir'[p] # tempDir'[q]
          /\ (probe'[p].ready /\ Stage(pc'[p]) > 3) => CreatedSession(p)'
          /\ (pc'[p] # pc[p] /\ CreatedSession(q)) =>
                 /\ OwnEntries(temp', q) = OwnEntries(temp, q)
                 /\ \A e \in temp' \ temp : e.s = tempDir'[p]
                 /\ \A e \in temp \ temp' : e.s = tempDir[p]]_vars

\* C17 witness: two invocations on the same device that created their session
\* directories in the same second; one has cleaned up and ended while the
\* other's ripped album is still in its session directory.
C17_Witness ==
    \E p \in Procs : \E q \in Procs \ {p} :
        /\ device[p] = device[q] /\ device[p] # NoDevice
        /\ CreatedSession(p) /\ CreatedSession(q) /\ tempDir[p][3] = tempDir[q][3]
        /\ Done(p) /\ SessionGone(p)
        /\ AlbumDirs(temp, tempDir[q]) # {}

\* C18: when two overlapping invocations have both relocated an album
\* directory of the same name, their final paths differ and each is a
\* directory directly under the final destination that holds that
\* invocation's album and nothing moved into it.
RelocatedAlbum(p) == Relocated(p) /\ fault[p] = "none"
C18_RaceKeepsSiblings ==
    \A p \in Procs : \A q \in Procs \ {p} :
        (RelocatedAlbum(p) /\ RelocatedAlbum(q) /\ albumDir[p] = albumDir[q]) =>
            /\ finalPath[p] # finalPath[q]
            /\ lib[finalPath[p]] = Dir(p, {})
            /\ lib[finalPath[q]] = Dir(q, {})

\* C19: in a run with no exception and no sys.exit in flight (one that ends
\* with status 0), an album directory leaves the session directory only by
\* being moved under the final destination: the cleanup deletes no album
\* directory the ripper left.
InLibrary(library, a, p) ==
    \E n \in FinalNames :
        \/ library[n].present /\ library[n].origin = p /\ n[1] = a
        \/ <<a, p>> \in library[n].inner
C19_CleanupKeepsRippedAlbums ==
    [][\A p \in Procs : \A e \in temp \ temp' :
          (e.kind = "album" /\ e.s = tempDir[p] /\ pending[p] = NoPending) =>
              InLibrary(lib', e.a, p)]_vars

\* C20: a run sends at most one final notification. A failure notification
\* is sent only when the ripper itself exited with a non-zero code, and it
\* carries that code; a completion notification is sent only when the ripper
\* exited 0 and the album directory was moved under the final destination.
C20_FinalNotification ==
    \A p \in Procs :
        /\ Cardinality(CallsWith(p, "Failed") \cup CallsWith(p, "Completed")) <= 1
        /\ \A i \in CallsWith(p, "Failed") :
               /\ calls[p][i].msg.code # 0
               /\ RipperExited(p, calls[p][i].msg.code)
               /\ ~RipperSucceeded(p)
        /\ Sent(p, "Completed") =>
               /\ RipperSucceeded(p)
               /\ \A c \in RipCodes \ {0} : ~RipperExited(p, c)
               /\ albumDir[p] # "" /\ InLibrary(lib, albumDir[p], p)
               /\ TempEntry(tempDir[p], "album", albumDir[p]) \notin temp

\* C20 witness: the service-start command exited non-zero after a successful
\* rip; the run ended with the completion notification and no failure
\* notification.
C20_Witness ==
    \E p \in Procs :
        /\ Done(p)
        /\ \E i \in CmdsOf(p, "systemctl start") : cmds[p][i].res = "nonzero"
        /\ Sent(p, "Completed") /\ ~Sent(p, "Failed")
====
